---- MODULE Spec2Model ----
(***************************************************************************)
(* A model of search.py: the Vimeo poller that forwards unseen videos to a *)
(* Discord webhook and records their links in an append-only ledger file.  *)
(*                                                                         *)
(* Text is modelled as sequences of one-character strings, so that the     *)
(* ledger file is a character stream and the round trip through            *)
(* write_known_links / read_known_links (newline framing, strip) is        *)
(* computed and not assumed.                                               *)
(***************************************************************************)
EXTENDS Integers, Sequences, FiniteSets, TLC

\* ------------------------------------------------------------ constants
RETRY_LIMIT == 5
DEFAULT_SLEEP_INTERVAL == 2
MAX_EMBEDS_PER_MESSAGE == 10
\* the second handle_rate_limiting adds to reset - now
SAFETY_MARGIN == 1

\* ------------------------------------------------------------ bounds
\* items in one upstream response
MaxItems == 1
\* lines the ledger may hold when a run starts
MaxLedgerLines == 2
\* |reset - now| and the 429 body's retry_after, in seconds
MaxDelta == 2
\* embeds handed to the batching loop
MaxBatch == 23
\* items in one upstream response, in the runs followed one at a time
MaxRunItems == 2
\* length of the texts, and the limits, trim_text is called with
MaxText == 8
\* how far around a limit the lengths of an item's texts are taken
MaxSlack == 1

\* ------------------------------------------------------------ text
NL == "\n"
Whitespace == {" ", NL}

RECURSIVE LStrip(_)
LStrip(s) ==
    IF s # <<>> /\ Head(s) \in Whitespace THEN LStrip(Tail(s)) ELSE s

RECURSIVE RStrip(_)
RStrip(s) ==
    IF s # <<>> /\ s[Len(s)] \in Whitespace
    THEN RStrip(SubSeq(s, 1, Len(s) - 1))
    ELSE s

\* str.strip()
Strip(s) == RStrip(LStrip(s))

\* iteration over a text file: the lines, each with its terminator
RECURSIVE FileLines(_, _)
FileLines(chars, cur) ==
    IF chars = <<>>
    THEN IF cur = <<>> THEN <<>> ELSE <<cur>>
    ELSE IF Head(chars) = NL
         THEN <<Append(cur, NL)>> \o FileLines(Tail(chars), <<>>)
         ELSE FileLines(Tail(chars), Append(cur, Head(chars)))

SeqRange(s) == {s[i] : i \in 1..Len(s)}

IsPrefix(s, t) == Len(s) <= Len(t) /\ SubSeq(t, 1, Len(s)) = s

Min(a, b) == IF a < b THEN a ELSE b
Max(a, b) == IF a > b THEN a ELSE b

\* ------------------------------------------------------------ ledger
\* read_known_links: a missing file and an empty file both give the empty set
read_known_links(file) ==
    {Strip(line) : line \in SeqRange(FileLines(file, <<>>))}

\* the text write_known_links appends for the links in iteration order
RECURSIVE LinkText(_)
LinkText(order) ==
    IF order = <<>> THEN <<>>
    ELSE Head(order) \o <<NL>> \o LinkText(Tail(order))

\* open(KNOWN_LINKS_FILE, 'w') in place of 'a'
write_known_links_truncating(file, order) ==
    IF order = <<>> THEN file ELSE LinkText(order)

write_known_links(file, order) ==
    IF order = <<>> THEN file ELSE file \o LinkText(order)

\* the orders in which a Python set of links may be iterated
Orders(S) ==
    {o \in [1..Cardinality(S) -> S] : \A i, j \in 1..Cardinality(S) : i # j => o[i] # o[j]}

\* ------------------------------------------------------------ HTTP replies
\* What one HTTP exchange gives back. status 0: no response (a transport
\* error raised by requests.get / requests.post). rem_h / reset_h say whether
\* X-RateLimit-Remaining / X-RateLimit-Reset are absent, unparseable or
\* usable; delta is reset - now in seconds; body_ok says whether the body
\* decodes as JSON; retry_after is the delay a 429 body suggests.
MkReply(status, rem_h, rem, reset_h, delta, body_ok, retry_after) ==
    [status |-> status, rem_h |-> rem_h, rem |-> rem, reset_h |-> reset_h,
     delta |-> delta, body_ok |-> body_ok, retry_after |-> retry_after]

\* no HTTP exchange took place
NoReply == MkReply(0 - 1, "absent", 0, "absent", 0, FALSE, 0)
TransportError == MkReply(0, "absent", 0, "absent", 0, FALSE, 0)
ServerError == MkReply(500, "absent", 0, "absent", 0, FALSE, 0)
TooMany(ra) == MkReply(429, "absent", 0, "absent", 0, TRUE, ra)
PlainOk == MkReply(200, "absent", 0, "absent", 0, TRUE, 0)
BadRemainingOk == MkReply(200, "bad", 0, "int", 0, TRUE, 0)

HeaderShapes ==
    {<<"absent", 0, "absent", 0>>, <<"int", 0, "absent", 0>>,
     <<"bad", 0, "int", 0>>, <<"int", 0, "bad", 0>>}
    \cup {<<"int", r, "int", d>> : r \in 0..2, d \in (0 - MaxDelta)..MaxDelta}

Replies ==
    {TransportError, ServerError}
    \cup {TooMany(ra) : ra \in 1..MaxDelta}
    \cup {MkReply(200, h[1], h[2], h[3], h[4], b, 0) : h \in HeaderShapes, b \in BOOLEAN}

\* ------------------------------------------------------------ executor
\* handle_rate_limiting: the sleep it performs, or the ValueError that
\* int(headers['X-RateLimit-Remaining']) raises outside its try blocks
handle_rate_limiting(h) ==
    IF h.rem_h # "absent" /\ h.reset_h # "absent"
    THEN IF h.rem_h = "bad"
         THEN [raised |-> TRUE, slept |-> <<>>]
         ELSE IF h.reset_h = "bad"
              THEN [raised |-> FALSE, slept |-> <<DEFAULT_SLEEP_INTERVAL>>]
              ELSE IF h.rem <= 1
                   THEN [raised |-> FALSE, slept |-> <<Max(h.delta + SAFETY_MARGIN, 0)>>]
                   ELSE [raised |-> FALSE, slept |-> <<DEFAULT_SLEEP_INTERVAL>>]
    ELSE [raised |-> FALSE, slept |-> <<DEFAULT_SLEEP_INTERVAL>>]

Methods == {"get", "post", "POST", "put"}

\* str.lower() on the method names in use
Lower(m) == IF m = "POST" THEN "post" ELSE IF m = "GET" THEN "get" ELSE m

\* response.raise_for_status()
raise_for_status(status) == 400 <= status /\ status < 600

RetrySleepHonouring429(reply) ==
    IF reply.status = 429
    THEN <<reply.retry_after + SAFETY_MARGIN>>
    ELSE <<DEFAULT_SLEEP_INTERVAL>>

\* the sleep both except clauses of request_with_retries perform
RetrySleep(reply) == <<DEFAULT_SLEEP_INTERVAL>>

MkAttempt(reply, issued, returned, result, error, sleeps) ==
    [reply |-> reply, issued |-> issued, returned |-> returned,
     result |-> result, error |-> error, sleeps |-> sleeps]

\* One iteration of the retry loop of request_with_retries, given the reply
\* the HTTP exchange (if one is issued) produces.
Attempt(method, reply) ==
    IF Lower(method) \notin {"get", "post"}
    THEN MkAttempt(NoReply, FALSE, FALSE, "None", "ValueError", RetrySleep(NoReply))
    ELSE IF reply.status = 0 \/ raise_for_status(reply.status)
         THEN MkAttempt(reply, TRUE, FALSE, "None", "RequestException", RetrySleep(reply))
         ELSE LET h == handle_rate_limiting(reply) IN
              IF h.raised
              THEN MkAttempt(reply, TRUE, FALSE, "None", "ValueError", RetrySleep(reply))
              ELSE IF Lower(method) = "get"
                   THEN IF reply.body_ok
                        THEN MkAttempt(reply, TRUE, TRUE, "json", "none", h.slept)
                        ELSE MkAttempt(reply, TRUE, FALSE, "None", "ValueError",
                                       h.slept \o RetrySleep(reply))
                   ELSE MkAttempt(reply, TRUE, TRUE, "None", "none", h.slept)

LoopContinuesOnceMore(done) == done <= RETRY_LIMIT

\* whether the for loop runs another iteration after `done` of them
LoopContinues(done) == done < RETRY_LIMIT

Accepted(a) == a.issued /\ a.reply.status >= 200 /\ a.reply.status < 300

\* request_with_retries as a whole, over the replies of its attempts: the
\* value returned, the HTTP calls issued, the attempts the webhook or API
\* answered 2xx, and whether the budget was exhausted.
RECURSIVE RunRequest(_, _, _, _, _)
RunRequest(method, replies, done, calls, accepted) ==
    IF ~LoopContinues(done)
    THEN [result |-> "None", calls |-> calls, accepted |-> accepted, exhausted |-> TRUE]
    ELSE LET a == Attempt(method, replies[done + 1])
             c == calls + (IF a.issued THEN 1 ELSE 0)
             ok == accepted + (IF Accepted(a) THEN 1 ELSE 0)
         IN IF a.returned
            THEN [result |-> a.result, calls |-> c, accepted |-> ok, exhausted |-> FALSE]
            ELSE RunRequest(method, replies, done + 1, c, ok)

request_with_retries(method, replies) == RunRequest(method, replies, 0, 0, 0)

\* ------------------------------------------------------------ configuration
\* os.getenv(...).split(","): an entry may be the empty string, or blank
SEARCH_QUERIES == <<"k1", "", " ">>
MONITORED_USERS == <<"u1">>

\* ------------------------------------------------------------ upstream data
LinkA == <<"a">>
LinkASpace == <<"a", " ">>
LinkB == <<"b">>
EmptyLink == <<>>

\* The videos upstream, newest first. A record holds the video's link and
\* whether its 'user' is null (the formatter then raises on user.get).
Catalogue ==
    <<[link |-> LinkA, user_null |-> FALSE],
      [link |-> LinkASpace, user_null |-> FALSE],
      [link |-> LinkB, user_null |-> TRUE],
      [link |-> EmptyLink, user_null |-> FALSE]>>

Items == {Catalogue[i] : i \in 1..Len(Catalogue)}

\* "sort": "date", "direction": "desc": a response lists some of the videos,
\* each once, newest first
Increasing(k) ==
    {g \in [1..k -> 1..Len(Catalogue)] : \A i, j \in 1..k : i < j => g[i] < g[j]}

Listings(n) ==
    UNION {{[i \in 1..k |-> Catalogue[g[i]]] : g \in Increasing(k)} : k \in 0..n}

\* A decoded body: a dict with a 'data' list, or a body of another shape
\* (response.get / iteration over it raises in main).
Responses ==
    {[shape |-> "malformed", data |-> <<>>]}
    \cup {[shape |-> "ok", data |-> d] : d \in Listings(MaxItems)}

EmptyResponse == [shape |-> "ok", data |-> <<>>]

Upstreams ==
    {[q |-> q, u |-> u] :
        q \in {f \in [1..Len(SEARCH_QUERIES) -> Responses] :
                 \A i \in 1..Len(SEARCH_QUERIES) :
                    SEARCH_QUERIES[i] = "" => f[i] = EmptyResponse},
        u \in {f \in [1..Len(MONITORED_USERS) -> Responses] :
                 \A i \in 1..Len(MONITORED_USERS) :
                    MONITORED_USERS[i] = "" => f[i] = EmptyResponse}}

\* the replies the attempts of one call get, in the runs of main
AllOf(reply) == [i \in 1..RETRY_LIMIT |-> reply]
MainScripts == {AllOf(PlainOk), AllOf(ServerError)}

\* ------------------------------------------------------------ filtering
TruthyAlways(link) == TRUE

\* `if link`: item.get('link') is neither None nor ''
Truthy(link) == link # <<>>

Claimed(nv) == {nv[i].link : i \in 1..Len(nv)}

IsNewWithoutRunCheck(link, known, nv) == Truthy(link) /\ link \notin known

\* `if link and link not in known_links and link not in new_videos_to_post`
IsNew(link, known, nv) ==
    Truthy(link) /\ link \notin known /\ link \notin Claimed(nv)

\* new_videos_to_post[link] = (item, query) without the test for a claim made
\* earlier in the run: the dict entry is overwritten
RECURSIVE ClaimLastWins(_, _, _, _)
ClaimLastWins(nv, data, known, keyword) ==
    IF data = <<>> THEN nv
    ELSE LET link == Head(data).link
             at == {i \in 1..Len(nv) : nv[i].link = link}
             e == [link |-> link, item |-> Head(data), keyword |-> keyword]
         IN IF Truthy(link) /\ link \notin known
            THEN IF at = {}
                 THEN ClaimLastWins(Append(nv, e), Tail(data), known, keyword)
                 ELSE ClaimLastWins([nv EXCEPT ![CHOOSE i \in at : TRUE] = e],
                                    Tail(data), known, keyword)
            ELSE ClaimLastWins(nv, Tail(data), known, keyword)

\* the loop over response.get('data', []): first claim wins
RECURSIVE Claim(_, _, _, _)
Claim(nv, data, known, keyword) ==
    IF data = <<>> THEN nv
    ELSE LET link == Head(data).link IN
         IF IsNew(link, known, nv)
         THEN Claim(Append(nv, [link |-> link, item |-> Head(data), keyword |-> keyword]),
                    Tail(data), known, keyword)
         ELSE Claim(nv, Tail(data), known, keyword)

UserKeyword(user_id) == "User: " \o user_id

\* videos_to_send_by_keyword, in dict insertion order
RECURSIVE Groups(_, _)
Groups(nv, acc) ==
    IF nv = <<>> THEN acc
    ELSE LET e == Head(nv)
             at == {i \in 1..Len(acc) : acc[i].keyword = e.keyword}
         IN IF at = {}
            THEN Groups(Tail(nv), Append(acc, [keyword |-> e.keyword, videos |-> <<e.item>>]))
            ELSE LET i == CHOOSE j \in at : TRUE IN
                 Groups(Tail(nv),
                        [acc EXCEPT ![i].videos = Append(acc[i].videos, e.item)])

videos_to_send_by_keyword(nv) == Groups(nv, <<>>)

\* ------------------------------------------------------------ formatter
\* building the embed of a video raises when its 'user' is null
FormatRaises(video) == video.user_null

GroupRaises(videos) == \E i \in 1..Len(videos) : FormatRaises(videos[i])

\* the embed stands for its url, the video's link
Embeds(videos) == [i \in 1..Len(videos) |-> videos[i].link]

\* range(0, len(embeds), MAX_EMBEDS_PER_MESSAGE)
ChunkStarts(n) == {i \in 0..n : i % MAX_EMBEDS_PER_MESSAGE = 0 /\ i < n}

NumChunks(n) == Cardinality(ChunkStarts(n))

BatchOneShort(embeds, i) ==
    SubSeq(embeds, i + 1, Min(i + MAX_EMBEDS_PER_MESSAGE - 1, Len(embeds)))

\* embeds[i:i+MAX_EMBEDS_PER_MESSAGE]
Batch(embeds, i) == SubSeq(embeds, i + 1, Min(i + MAX_EMBEDS_PER_MESSAGE, Len(embeds)))

\* one iteration of the sending loop: the call made for the chunk at i
BatchCall(embeds, i, keyword, replies) ==
    LET r == request_with_retries("post", replies) IN
    [keyword |-> keyword, embeds |-> Batch(embeds, i), content |-> (i = 0),
     delivered |-> ~r.exhausted, accepted |-> r.accepted, calls |-> r.calls]

\* where the loop goes after the chunk at i
NextChunk(i) == i + MAX_EMBEDS_PER_MESSAGE

\* the sending loop of send_detailed_to_discord from offset i on; scripts[k]
\* holds the replies the k-th call gets
RECURSIVE BatchCalls(_, _, _, _)
BatchCalls(embeds, i, keyword, scripts) ==
    IF i >= Len(embeds) THEN <<>>
    ELSE <<BatchCall(embeds, i, keyword, scripts[(i \div MAX_EMBEDS_PER_MESSAGE) + 1])>>
         \o BatchCalls(embeds, NextChunk(i), keyword, scripts)

\* ------------------------------------------------------------ embed text
\* the literals of send_detailed_to_discord
DESCRIPTION_LIMIT == 4096
FIELD_VALUE_LIMIT == 1024
TITLE_LIMIT == 256
EMBED_LIMIT == 6000

\* Python's None where a text is expected, and a key the item does not have
NoneText == <<"None">>
Absent == <<"absent">>

Ellipsis == <<".", ".", ".">>

\* text[:n], for n of either sign
Slice(text, n) ==
    IF n >= 0
    THEN SubSeq(text, 1, Min(n, Len(text)))
    ELSE SubSeq(text, 1, Max(Len(text) + n, 0))

trim_text_cutting_at_limit(text, max_length) ==
    IF text = NoneText THEN <<>>
    ELSE IF Len(text) > max_length
         THEN Slice(text, max_length) \o Ellipsis
         ELSE text

\* trim_text(text, max_length), ellipsis=True as at every call site
trim_text(text, max_length) ==
    IF text = NoneText THEN <<>>
    ELSE IF Len(text) > max_length
         THEN Slice(text, max_length - 3) \o Ellipsis
         ELSE text

\* video.get(key, default)
Get(value, default) == IF value = Absent THEN default ELSE value

\* str(value) inside an f-string
Str(value) == IF value = NoneText THEN <<"N", "o", "n", "e">> ELSE value

Digits == <<"0", "1", "2", "3", "4", "5", "6", "7", "8", "9">>
Digit(d) == <<Digits[d + 1]>>
TwoDigits(n) == Digit(n \div 10) \o Digit(n % 10)

NotAvailable == <<"N", "/", "A">>

\* video.get('duration') when the item has none
NoDuration == 0 - 1

\* format_duration for a duration below one day: str(timedelta(seconds=s)),
\* and "N/A" when int(seconds) raises TypeError (None)
format_duration(seconds) ==
    IF seconds = NoDuration THEN NotAvailable
    ELSE LET h == seconds \div 3600
             m == (seconds % 3600) \div 60
             sec == seconds % 60
         IN (IF h >= 10 THEN TwoDigits(h) ELSE Digit(h))
            \o <<":">> \o TwoDigits(m) \o <<":">> \o TwoDigits(sec)

MatchedOn == <<"M", "a", "t", "c", "h", "e", "d", " ", "O", "n">>
Resolution == <<"R", "e", "s", "o", "l", "u", "t", "i", "o", "n">>
Duration == <<"D", "u", "r", "a", "t", "i", "o", "n">>
NoTitle == <<"N", "o", " ", "T", "i", "t", "l", "e">>
NoDescription ==
    <<"N", "o", " ", "d", "e", "s", "c", "r", "i", "p", "t", "i", "o", "n", " ",
      "a", "v", "a", "i", "l", "a", "b", "l", "e">>

\* the `fields` list of one embed
EmbedFields(video, keyword) ==
    <<[name |-> MatchedOn, value |-> trim_text(keyword, FIELD_VALUE_LIMIT)],
      [name |-> Resolution,
       value |-> trim_text(Str(Get(video.width, NotAvailable)) \o <<"x">>
                           \o Str(Get(video.height, NotAvailable)),
                           FIELD_VALUE_LIMIT)],
      [name |-> Duration,
       value |-> trim_text(format_duration(video.duration), FIELD_VALUE_LIMIT)]>>

RECURSIVE FieldsLength(_)
FieldsLength(fields) ==
    IF fields = <<>> THEN 0
    ELSE Len(Head(fields).name) + Len(Head(fields).value) + FieldsLength(Tail(fields))

\* total_embed_length
EmbedLength(title, description, fields) ==
    Len(title) + Len(description) + FieldsLength(fields)

\* the title, description and fields of the embed built for one video
BuildEmbed(video, keyword) ==
    LET description == trim_text(Get(video.description, NoDescription), DESCRIPTION_LIMIT)
        fields == EmbedFields(video, keyword)
        title == trim_text(Get(video.name, NoTitle), TITLE_LIMIT)
        total_embed_length == EmbedLength(title, description, fields)
        max_desc_length == EMBED_LIMIT - (total_embed_length - Len(description))
    IN [title |-> title,
        description |-> IF total_embed_length > EMBED_LIMIT
                        THEN trim_text(description, max_desc_length)
                        ELSE description,
        fields |-> fields,
        first_cut |-> description]

\* ------------------------------------------------------------ state
VARIABLES
    upstream,            \* what the API answers for each query / user
    ledger,              \* content of KNOWN_LINKS_FILE, a character stream
    pc,                  \* "Idle", "Queries", "Users", "Deliver"
    idx,                 \* position in the list being polled / group to send
    known_links,         \* the set loaded at the start of the run
    new_videos_to_post,  \* the run's claims, in insertion order
    posted,              \* history: the delivery calls of the run
    polled,              \* history: entries the executor was invoked for
    failed,              \* history: entries whose poll returned None
    written,             \* history: the links the run wrote, in order
    outcome,             \* how the latest run ended ("none" before any)
    ledger0,             \* history: the ledger when the run started
    prevFailed,          \* history: `failed` of the run before (NoRun if none)
    everPosted,          \* history: links in delivery calls of earlier runs
    http,                \* history: HTTP attempts of each executor call of the run
    rq,                  \* one call of request_with_retries, attempt by attempt
    bt,                  \* one run of the sending loop, chunk by chunk
    tr,                  \* one call of trim_text
    fm                   \* the embed built for one video

mainVars == <<upstream, ledger, pc, idx, known_links, new_videos_to_post, posted,
              polled, failed, written, outcome, ledger0, prevFailed,
              everPosted, http>>
vars == <<upstream, ledger, pc, idx, known_links, new_videos_to_post, posted,
          polled, failed, written, outcome, ledger0, prevFailed,
          everPosted, http, rq, bt, tr, fm>>

NoAttempt == MkAttempt(NoReply, FALSE, FALSE, "None", "none", <<>>)

RqIdle ==
    [method |-> "get", pc |-> "idle", done |-> 0, calls |-> 0, sleeps |-> 0,
     result |-> "None", last |-> NoAttempt]
BtIdle == [pc |-> "idle", embeds |-> <<>>, i |-> 0, calls |-> <<>>]
TrIdle == [pc |-> "idle", text |-> <<>>, max_length |-> 0, out |-> <<>>]
NoVideo ==
    [name |-> Absent, description |-> Absent, width |-> Absent, height |-> Absent,
     duration |-> NoDuration]
NoEmbed ==
    [title |-> <<>>, description |-> <<>>, fields |-> <<>>, first_cut |-> <<>>]
FmIdle == [pc |-> "idle", video |-> NoVideo, keyword |-> <<>>, embed |-> NoEmbed]

\* prevFailed before the second run
NoRun == {<<"none", 0>>}

LedgerLines == Len(FileLines(ledger, <<>>))

PostedLinks == UNION {SeqRange(posted[i].embeds) : i \in 1..Len(posted)}

MainRest ==
    /\ ledger = <<>>
    /\ pc = "Idle"
    /\ idx = 1
    /\ known_links = {}
    /\ new_videos_to_post = <<>>
    /\ posted = <<>>
    /\ polled = {}
    /\ failed = {}
    /\ written = <<>>
    /\ outcome = "none"
    /\ ledger0 = <<>>
    /\ prevFailed = NoRun
    /\ everPosted = {}
    /\ http = <<>>

MainInit == upstream \in Upstreams /\ MainRest

Quiet == rq = RqIdle /\ bt = BtIdle /\ tr = TrIdle /\ fm = FmIdle

Init == MainInit /\ Quiet

\* ------------------------------------------------------------ main()
\* known_links = read_known_links(); new_videos_to_post = {}
StartRun ==
    /\ pc = "Idle"
    /\ LedgerLines <= MaxLedgerLines
    /\ pc' = "Queries"
    /\ idx' = 1
    /\ known_links' = read_known_links(ledger)
    /\ new_videos_to_post' = <<>>
    /\ posted' = <<>>
    /\ polled' = {}
    /\ failed' = {}
    /\ written' = <<>>
    /\ outcome' = "running"
    /\ ledger0' = ledger
    /\ prevFailed' = IF outcome = "none" THEN NoRun ELSE failed
    /\ everPosted' = everPosted \cup PostedLinks
    /\ http' = <<>>
    /\ UNCHANGED <<upstream, ledger, rq, bt, tr, fm>>

\* the list being walked, the answers to its entries and the match reason
\* an entry stands for
CurList == IF pc = "Queries" THEN SEARCH_QUERIES ELSE MONITORED_USERS
CurAnswers == IF pc = "Queries" THEN upstream.q ELSE upstream.u
CurKeyword(e) == IF pc = "Queries" THEN e ELSE UserKeyword(e)
Entry(i) == <<pc, i>>

\* `if not query: continue`
IsBlank(e) == e = ""

SkipBlank ==
    /\ pc \in {"Queries", "Users"}
    /\ idx <= Len(CurList)
    /\ IsBlank(CurList[idx])
    /\ idx' = idx + 1
    /\ UNCHANGED <<upstream, ledger, pc, known_links, new_videos_to_post, posted,
                   polled, failed, written, outcome, ledger0, prevFailed,
                   everPosted, http, rq, bt, tr, fm>>

AfterFailedPollDropping(nv) == <<>>

\* what a poll that returned None leaves of the claims made so far
AfterFailedPoll(nv) == nv

\* search_vimeo / get_user_uploads returned None after RETRY_LIMIT attempts
PollFails ==
    /\ pc \in {"Queries", "Users"}
    /\ idx <= Len(CurList)
    /\ ~IsBlank(CurList[idx])
    /\ \E script \in MainScripts :
          LET r == request_with_retries("get", script) IN
          r.result = "None" /\ http' = Append(http, r.calls)
    /\ polled' = polled \cup {Entry(idx)}
    /\ failed' = failed \cup {Entry(idx)}
    /\ new_videos_to_post' = AfterFailedPoll(new_videos_to_post)
    /\ idx' = idx + 1
    /\ UNCHANGED <<upstream, ledger, pc, known_links, posted, written, outcome,
                   ledger0, prevFailed, everPosted, rq, bt, tr, fm>>

\* the poll returned a body and its items were filtered
PollOk ==
    /\ pc \in {"Queries", "Users"}
    /\ idx <= Len(CurList)
    /\ ~IsBlank(CurList[idx])
    /\ \E script \in MainScripts :
          LET r == request_with_retries("get", script) IN
          r.result = "json" /\ http' = Append(http, r.calls)
    /\ CurAnswers[idx].shape = "ok"
    /\ polled' = polled \cup {Entry(idx)}
    /\ new_videos_to_post' =
          Claim(new_videos_to_post, CurAnswers[idx].data, known_links,
                CurKeyword(CurList[idx]))
    /\ idx' = idx + 1
    /\ UNCHANGED <<upstream, ledger, pc, known_links, posted, failed, written, outcome,
                   ledger0, prevFailed, everPosted, rq, bt, tr, fm>>

AfterExceptionRetrying == "Queries"

\* where main's except clause leaves the run: main returns
AfterExceptionPc == "Idle"

\* the poll returned a body without a usable 'data' list: main's except
\* clause ends the run
PollRaises ==
    /\ pc \in {"Queries", "Users"}
    /\ idx <= Len(CurList)
    /\ ~IsBlank(CurList[idx])
    /\ \E script \in MainScripts :
          LET r == request_with_retries("get", script) IN
          r.result = "json" /\ http' = Append(http, r.calls)
    /\ CurAnswers[idx].shape = "malformed"
    /\ polled' = polled \cup {Entry(idx)}
    /\ pc' = AfterExceptionPc
    /\ outcome' = "exception"
    /\ UNCHANGED <<upstream, ledger, idx, known_links, new_videos_to_post, posted,
                   failed, written, ledger0, prevFailed, everPosted, rq, bt, tr, fm>>

\* the loop over SEARCH_QUERIES is over
QueriesDone ==
    /\ pc = "Queries"
    /\ idx > Len(SEARCH_QUERIES)
    /\ pc' = "Users"
    /\ idx' = 1
    /\ UNCHANGED <<upstream, ledger, known_links, new_videos_to_post, posted, polled,
                   failed, written, outcome, ledger0, prevFailed,
                   everPosted, http, rq, bt, tr, fm>>

\* `if new_videos_to_post:` ... `else: print("No new links found.")`
NoNewLinks ==
    /\ pc = "Users"
    /\ idx > Len(MONITORED_USERS)
    /\ new_videos_to_post = <<>>
    /\ pc' = "Idle"
    /\ outcome' = "nonew"
    /\ UNCHANGED <<upstream, ledger, idx, known_links, new_videos_to_post, posted,
                   polled, failed, written, ledger0, prevFailed,
                   everPosted, http, rq, bt, tr, fm>>

StartDelivery ==
    /\ pc = "Users"
    /\ idx > Len(MONITORED_USERS)
    /\ new_videos_to_post # <<>>
    /\ pc' = "Deliver"
    /\ idx' = 1
    /\ UNCHANGED <<upstream, ledger, known_links, new_videos_to_post, posted, polled,
                   failed, written, outcome, ledger0, prevFailed,
                   everPosted, http, rq, bt, tr, fm>>

GroupList == videos_to_send_by_keyword(new_videos_to_post)

\* send_detailed_to_discord(video_list, keyword) for the next group
SendGroup ==
    /\ pc = "Deliver"
    /\ idx <= Len(GroupList)
    /\ ~GroupRaises(GroupList[idx].videos)
    /\ LET g == GroupList[idx]
           e == Embeds(g.videos)
       IN \E scripts \in [1..NumChunks(Len(e)) -> MainScripts] :
             LET sent == BatchCalls(e, 0, g.keyword, scripts) IN
             /\ posted' = posted \o sent
             /\ http' = http \o [k \in 1..Len(sent) |-> sent[k].calls]
    /\ idx' = idx + 1
    /\ UNCHANGED <<upstream, ledger, pc, known_links, new_videos_to_post, polled,
                   failed, written, outcome, ledger0, prevFailed,
                   everPosted, rq, bt, tr, fm>>

\* what main's except clause leaves in the ledger file
AfterException(file, nv) == file

\* formatting a video of the next group raises: main's except clause
SendRaises ==
    /\ pc = "Deliver"
    /\ idx <= Len(GroupList)
    /\ GroupRaises(GroupList[idx].videos)
    /\ ledger' = AfterException(ledger, new_videos_to_post)
    /\ pc' = AfterExceptionPc
    /\ outcome' = "exception"
    /\ UNCHANGED <<upstream, idx, known_links, new_videos_to_post, posted, polled,
                   failed, written, ledger0, prevFailed, everPosted, http, rq, bt, tr, fm>>

\* newly_found_links = set(new_videos_to_post.keys())
newly_found_links == Claimed(new_videos_to_post)

\* write_known_links(newly_found_links), after the last group
Commit ==
    /\ pc = "Deliver"
    /\ idx > Len(GroupList)
    /\ \E order \in Orders(newly_found_links) :
          /\ ledger' = write_known_links(ledger, order)
          /\ written' = order
    /\ pc' = "Idle"
    /\ outcome' = "committed"
    /\ UNCHANGED <<upstream, idx, known_links, new_videos_to_post, posted, polled,
                   failed, ledger0, prevFailed, everPosted, http, rq, bt, tr, fm>>

Next ==
    \/ StartRun
    \/ SkipBlank
    \/ PollFails
    \/ PollOk
    \/ PollRaises
    \/ QueriesDone
    \/ NoNewLinks
    \/ StartDelivery
    \/ SendGroup
    \/ SendRaises
    \/ Commit

Spec == Init /\ [][Next]_vars

\* ------------------------------------------------------------ one run
\* One invocation of main, from an empty ledger, with responses of up to
\* MaxRunItems items. Once invoked the process keeps taking steps: every HTTP
\* exchange ends and every sleep is finite.
RunResponses ==
    {[shape |-> "malformed", data |-> <<>>]}
    \cup {[shape |-> "ok", data |-> d] : d \in Listings(MaxRunItems)}

RunUpstreams ==
    {[q |-> q, u |-> u] :
        q \in {f \in [1..Len(SEARCH_QUERIES) -> RunResponses] :
                 \A i \in 1..Len(SEARCH_QUERIES) :
                    SEARCH_QUERIES[i] = "" => f[i] = EmptyResponse},
        u \in {f \in [1..Len(MONITORED_USERS) -> RunResponses] :
                 \A i \in 1..Len(MONITORED_USERS) :
                    MONITORED_USERS[i] = "" => f[i] = EmptyResponse}}

InitRun == upstream \in RunUpstreams /\ MainRest /\ Quiet

\* the one invocation
FirstRun == outcome = "none" /\ StartRun

NextRun ==
    \/ FirstRun
    \/ SkipBlank
    \/ PollFails
    \/ PollOk
    \/ PollRaises
    \/ QueriesDone
    \/ NoNewLinks
    \/ StartDelivery
    \/ SendGroup
    \/ SendRaises
    \/ Commit

SpecRun == InitRun /\ [][NextRun]_vars /\ WF_vars(NextRun)

\* ------------------------------------------------------------ one call
\* request_with_retries on its own, one loop iteration per step, for every
\* method and every reply
QuietUpstream ==
    [q |-> [i \in 1..Len(SEARCH_QUERIES) |-> EmptyResponse],
     u |-> [i \in 1..Len(MONITORED_USERS) |-> EmptyResponse]]

InitReq ==
    /\ upstream = QuietUpstream
    /\ MainRest
    /\ rq \in {[RqIdle EXCEPT !.method = m, !.pc = "loop"] : m \in Methods}
    /\ bt = BtIdle
    /\ tr = TrIdle
    /\ fm = FmIdle

ReqAttempt ==
    /\ rq.pc = "loop"
    /\ LoopContinues(rq.done)
    /\ \E reply \in Replies :
          LET a == Attempt(rq.method, reply) IN
          rq' = [rq EXCEPT !.done = @ + 1,
                           !.calls = @ + (IF a.issued THEN 1 ELSE 0),
                           !.sleeps = @ + Len(a.sleeps),
                           !.last = a,
                           !.result = a.result,
                           !.pc = IF a.returned THEN "returned" ELSE "loop"]
    /\ UNCHANGED <<mainVars, bt, tr, fm>>

\* the loop is over: `print("Failed to ...")`, `return None`
ReqGiveUp ==
    /\ rq.pc = "loop"
    /\ ~LoopContinues(rq.done)
    /\ rq' = [rq EXCEPT !.pc = "failed", !.result = "None"]
    /\ UNCHANGED <<mainVars, bt, tr, fm>>

NextReq == ReqAttempt \/ ReqGiveUp

SpecReq == InitReq /\ [][NextReq]_vars

\* ------------------------------------------------------------ one batch loop
\* the sending loop of send_detailed_to_discord on its own, one chunk per
\* step; the embeds are numbered 1..n
InitBatch ==
    /\ upstream = QuietUpstream
    /\ MainRest
    /\ rq = RqIdle
    /\ bt \in {[BtIdle EXCEPT !.pc = "loop", !.embeds = [k \in 1..n |-> k]] : n \in 1..MaxBatch}
    /\ tr = TrIdle
    /\ fm = FmIdle

BatchStep ==
    /\ bt.pc = "loop"
    /\ bt.i < Len(bt.embeds)
    /\ \E script \in MainScripts :
          bt' = [bt EXCEPT !.calls = Append(@, BatchCall(bt.embeds, bt.i, "k1", script)),
                           !.i = NextChunk(bt.i)]
    /\ UNCHANGED <<mainVars, rq, tr, fm>>

BatchDone ==
    /\ bt.pc = "loop"
    /\ bt.i >= Len(bt.embeds)
    /\ bt' = [bt EXCEPT !.pc = "done"]
    /\ UNCHANGED <<mainVars, rq, tr, fm>>

NextBatch == BatchStep \/ BatchDone

SpecBatch == InitBatch /\ [][NextBatch]_vars

\* ------------------------------------------------------------ one trim_text call
Alphabet == <<"a", "b", "c">>

\* a text of n characters
Text(n) == [i \in 1..n |-> Alphabet[((i - 1) % 3) + 1]]

\* trim_text on its own: short texts against short limits, the description
\* of 5000 characters against DESCRIPTION_LIMIT, and None
TrimInputs ==
    {<<Text(n), l>> : n \in 0..MaxText, l \in 0..MaxText}
    \cup {<<Text(5000), DESCRIPTION_LIMIT>>}
    \cup {<<NoneText, l>> : l \in 0..MaxText}

InitTrim ==
    /\ upstream = QuietUpstream
    /\ MainRest
    /\ rq = RqIdle
    /\ bt = BtIdle
    /\ tr \in {[TrIdle EXCEPT !.pc = "call", !.text = in[1], !.max_length = in[2]] :
                 in \in TrimInputs}
    /\ fm = FmIdle

TrimCall ==
    /\ tr.pc = "call"
    /\ tr' = [tr EXCEPT !.pc = "done", !.out = trim_text(tr.text, tr.max_length)]
    /\ UNCHANGED <<mainVars, rq, bt, fm>>

NextTrim == TrimCall

SpecTrim == InitTrim /\ [][NextTrim]_vars

\* ------------------------------------------------------------ one embed
\* lengths at and around a limit
Around(limit) == {limit + d : d \in (0 - MaxSlack)..MaxSlack}

TextsAround(limit) == {Text(n) : n \in Around(limit)}

\* the items send_detailed_to_discord may be handed: each text absent, null,
\* short, or at and around the limit it is cut to
Videos ==
    [name : {Absent, NoneText} \cup TextsAround(TITLE_LIMIT),
     description : {Absent, NoneText, Text(0), Text(3000), Text(5000)}
                   \cup TextsAround(DESCRIPTION_LIMIT),
     width : {Absent, NoneText, Text(4), Text(1100)},
     height : {Absent, Text(600)},
     duration : {NoDuration, 86399}]

Keywords == {Text(2)} \cup TextsAround(FIELD_VALUE_LIMIT)

InitFormat ==
    /\ upstream = QuietUpstream
    /\ MainRest
    /\ rq = RqIdle
    /\ bt = BtIdle
    /\ tr = TrIdle
    /\ fm \in {[FmIdle EXCEPT !.pc = "build", !.video = v, !.keyword = k] :
                 v \in Videos, k \in Keywords}

\* the body of the loop over video_data, up to embeds.append(embed)
FormatStep ==
    /\ fm.pc = "build"
    /\ fm' = [fm EXCEPT !.pc = "built", !.embed = BuildEmbed(fm.video, fm.keyword)]
    /\ UNCHANGED <<mainVars, rq, bt, tr>>

NextFormat == FormatStep

SpecFormat == InitFormat /\ [][NextFormat]_vars

\* ------------------------------------------------------------ observations
\* the entries of the two lists that are not skipped
PollEntries ==
    {<<"Queries", i>> : i \in {j \in 1..Len(SEARCH_QUERIES) : ~IsBlank(SEARCH_QUERIES[j])}}
    \cup {<<"Users", i>> : i \in {j \in 1..Len(MONITORED_USERS) : ~IsBlank(MONITORED_USERS[j])}}

Answer(e) == IF e[1] = "Queries" THEN upstream.q[e[2]] ELSE upstream.u[e[2]]

\* the polls of the run that returned a body listing `link`
SurfacedBy(link) ==
    {e \in polled \ failed :
        /\ Answer(e).shape = "ok"
        /\ \E i \in 1..Len(Answer(e).data) : Answer(e).data[i].link = link}

AllLinks == {it.link : it \in Items}

\* the embeds of the run's delivery calls that reference `link`
EmbedCount(link) ==
    Cardinality({<<c, k>> \in (1..Len(posted)) \X (1..MAX_EMBEDS_PER_MESSAGE) :
                    k <= Len(posted[c].embeds) /\ posted[c].embeds[k] = link})

Occurrences(seq, x) == Cardinality({i \in 1..Len(seq) : seq[i] = x})

RunEnded == pc = "Idle" /\ outcome # "none"

\* ------------------------------------------------------------ properties of the runs

\* C1: a run whose polls answer exactly as in the run before makes no
\* delivery call and appends nothing to the ledger.
C1_Idempotent ==
    (RunEnded /\ prevFailed # NoRun /\ failed = prevFailed)
        => (posted = <<>> /\ ledger = ledger0)

\* C2: a link surfaced by two or more polls of a run is never referenced by
\* more than one embed of the run's delivery calls; when the run reaches
\* write_known_links and the link was new, exactly one embed references it and
\* the links written contain it exactly once.
C2_NoDuplicateDelivery ==
    \A link \in AllLinks :
        Cardinality(SurfacedBy(link)) >= 2 =>
            /\ EmbedCount(link) <= 1
            /\ (outcome = "committed" /\ Truthy(link) /\ link \notin known_links)
                  => (EmbedCount(link) = 1 /\ Occurrences(written, link) = 1)

C2_Witness ==
    \E link \in AllLinks :
        /\ Cardinality(SurfacedBy(link)) >= 2
        /\ outcome = "committed"
        /\ EmbedCount(link) = 1
        /\ Occurrences(written, link) = 1

\* C3: no link is included in a delivery call in more than one run.
C3_NoRepeatAcrossRuns == PostedLinks \cap everPosted = {}

\* C4: a run that claimed a new item has, when it ends, written the ledger
\* once, after every delivery call, with exactly the links it claimed.
C4_CommitOnce ==
    (RunEnded /\ new_videos_to_post # <<>>)
        => /\ written # <<>>
           /\ SeqRange(written) = newly_found_links
           /\ ledger = ledger0 \o LinkText(written)
           /\ \A i \in 1..Len(GroupList) :
                 \A k \in 1..Len(GroupList[i].videos) :
                    EmbedCount(GroupList[i].videos[k].link) >= 1

\* C5: every step leaves the ledger's previous content as a prefix of its
\* content.
C5_AppendOnly == [][IsPrefix(ledger, ledger')]_vars

C5_Witness ==
    /\ outcome = "committed"
    /\ ledger0 # <<>>
    /\ Len(ledger) > Len(ledger0)
    /\ IsPrefix(ledger0, ledger)

\* C6: a run with a terminally failed poll that is not ended by an exception
\* has polled every other entry, and every new link the other polls returned
\* is in a delivery call and in the links written to the ledger.
C6_PartialFailure ==
    (RunEnded /\ outcome \in {"committed", "nonew"} /\ failed # {})
        => /\ polled = PollEntries
           /\ \A e \in polled \ failed :
                 \A i \in 1..Len(Answer(e).data) :
                    LET link == Answer(e).data[i].link IN
                    (Truthy(link) /\ link \notin known_links)
                       => /\ link \in PostedLinks
                          /\ link \in SeqRange(written)
                          /\ ledger = ledger0 \o LinkText(written)

C6_Witness ==
    /\ outcome = "committed"
    /\ failed # {}
    /\ PostedLinks # {}
    /\ PostedLinks \subseteq SeqRange(written)

\* a line of the ledger file without its terminator
Chomp(line) ==
    IF line # <<>> /\ line[Len(line)] = NL THEN SubSeq(line, 1, Len(line) - 1) ELSE line

\* the identifiers a ledger file holds, line by line, as they were written
Identifiers(file) ==
    LET lines == FileLines(file, <<>>) IN [i \in 1..Len(lines) |-> Chomp(lines[i])]

NoRepeat(seq) == \A i, j \in 1..Len(seq) : i # j => seq[i] # seq[j]

\* C13: no identifier a run appends is in the ledger file the run started
\* from, and no identifier occurs twice in the ledger, which starts empty.
C13_NoRepeatedIdentifier ==
    /\ \A k \in 1..Len(written) :
          written[k] \notin SeqRange(Identifiers(ledger0))
    /\ NoRepeat(Identifiers(ledger))

\* C14: when an exception ends a run after filtering, while a group is
\* formatted or delivered, the step that ends the run appends the links the
\* run claimed to the ledger.
C14_CommitAfterException ==
    [][(pc = "Deliver" /\ outcome' = "exception")
          => \E order \in Orders(newly_found_links) :
                /\ order # <<>>
                /\ ledger' = write_known_links(ledger, order)]_vars

\* the configured entry a poll was made for
EntryText(e) == IF e[1] = "Queries" THEN SEARCH_QUERIES[e[2]] ELSE MONITORED_USERS[e[2]]

\* an entry that is empty or made of spaces only
OnlyWhitespace(text) == text \in {"", " ", "  "}

\* C15: the executor is never invoked for an entry that is empty or consists
\* only of whitespace, and no HTTP call is made for it.
C15_BlankSkipped ==
    /\ \A e \in polled : ~OnlyWhitespace(EntryText(e))
    /\ Len(http) <= Cardinality({e \in PollEntries : ~OnlyWhitespace(EntryText(e))})
                    + Len(posted)

\* the match reason a poll stands for
KeywordOf(e) ==
    IF e[1] = "Queries" THEN SEARCH_QUERIES[e[2]] ELSE UserKeyword(MONITORED_USERS[e[2]])

\* processing order: the keywords in list order, then the publishers
Before(e, f) ==
    \/ e[1] = "Queries" /\ f[1] = "Users"
    \/ e[1] = f[1] /\ e[2] < f[2]

First(S) == CHOOSE e \in S : \A f \in S \ {e} : Before(e, f)

\* C17: every claim of the run, and every embed of its delivery calls, carries
\* the match reason of the first poll, in processing order, that succeeded
\* and returned the link; polls made later leave it unchanged.
C17_FirstClaimWins ==
    /\ \A i \in 1..Len(new_videos_to_post) :
          LET c == new_videos_to_post[i] IN
          /\ SurfacedBy(c.link) # {}
          /\ c.keyword = KeywordOf(First(SurfacedBy(c.link)))
    /\ \A c \in 1..Len(posted) :
          \A k \in 1..Len(posted[c].embeds) :
             LET link == posted[c].embeds[k] IN
             /\ SurfacedBy(link) # {}
             /\ posted[c].keyword = KeywordOf(First(SurfacedBy(link)))

C17_Witness ==
    \E c \in 1..Len(posted) :
       \E k \in 1..Len(posted[c].embeds) :
          LET by == SurfacedBy(posted[c].embeds[k]) IN
          /\ outcome = "committed"
          /\ \E e, f \in by : e # f /\ KeywordOf(e) # KeywordOf(f)
          /\ posted[c].keyword = KeywordOf(First(by))
          /\ posted[c].delivered

\* ------------------------------------------------------------ properties of one call
Supported(m) == Lower(m) \in {"get", "post"}

RqOver == rq.pc \in {"returned", "failed"}

\* C7: a call issues at most RETRY_LIMIT HTTP attempts, and at least one when
\* the verb is supported; it returns at the attempt that succeeds, which is
\* its last; after RETRY_LIMIT failed attempts it returns None.
C7_RetryBudget ==
    /\ rq.calls <= RETRY_LIMIT
    /\ rq.done <= RETRY_LIMIT
    /\ (RqOver /\ Supported(rq.method)) => (rq.calls >= 1 /\ rq.calls = rq.done)
    /\ rq.pc = "returned" => (rq.last.returned /\ rq.last.error = "none")
    /\ (rq.pc = "loop" /\ rq.done > 0) => (~rq.last.returned /\ rq.last.error # "none")
    /\ rq.pc = "failed"
          => (rq.done = RETRY_LIMIT /\ rq.result = "None" /\ ~rq.last.returned)
    /\ (rq.pc = "loop" /\ rq.done = RETRY_LIMIT) => ENABLED ReqGiveUp

C7_Witness ==
    /\ rq.pc = "failed"
    /\ Supported(rq.method)
    /\ rq.calls = RETRY_LIMIT
    /\ rq.last.error = "RequestException"

\* C8: with an unsupported verb no HTTP call is issued, no sleep is performed
\* and no loop iteration is spent.
C8_UnsupportedVerbImmediate ==
    ~Supported(rq.method) => (rq.calls = 0 /\ rq.sleeps = 0 /\ rq.done = 0)

C16_RateLimitSleep ==
    rq.pc = "returned" =>
        LET h == rq.last.reply IN
        rq.last.sleeps =
            IF h.rem_h = "int" /\ h.reset_h = "int" /\ h.rem <= 1
            THEN <<Max(h.delta, 0) + SAFETY_MARGIN>>
            ELSE <<DEFAULT_SLEEP_INTERVAL>>

\* C19: once an attempt of a call has been answered 2xx, the call issues no
\* further HTTP attempt.
C19_NoAttemptAfter2xx ==
    [][Accepted(rq.last) => rq'.calls = rq.calls]_vars

\* ------------------------------------------------------------ properties of batching
CeilDiv(n, d) == (n + d - 1) \div d

RECURSIVE Concat(_)
Concat(chunks) == IF chunks = <<>> THEN <<>> ELSE Head(chunks) \o Concat(Tail(chunks))

ChunksOf(calls) == [k \in 1..Len(calls) |-> calls[k].embeds]

\* C10: the loop makes one call per chunk; the chunks made so far are the
\* embeds up to the loop's offset, in order, each of MAX_EMBEDS_PER_MESSAGE
\* embeds but possibly the last; when the loop is over there are
\* ceil(N / MAX_EMBEDS_PER_MESSAGE) calls covering all N embeds, whether or
\* not earlier calls were delivered.
C10_Batching ==
    LET n == Len(bt.embeds)
        calls == bt.calls
    IN bt.pc # "idle" =>
        /\ Concat(ChunksOf(calls)) = SubSeq(bt.embeds, 1, Min(bt.i, n))
        /\ \A k \in 1..Len(calls) :
              /\ Len(calls[k].embeds) >= 1
              /\ Len(calls[k].embeds) <= MAX_EMBEDS_PER_MESSAGE
              /\ (k < Len(calls) \/ bt.i < n)
                    => Len(calls[k].embeds) = MAX_EMBEDS_PER_MESSAGE
        /\ Len(calls) = CeilDiv(Min(bt.i, n), MAX_EMBEDS_PER_MESSAGE)
        /\ bt.pc = "done"
              => (Len(calls) = CeilDiv(n, MAX_EMBEDS_PER_MESSAGE)
                  /\ Concat(ChunksOf(calls)) = bt.embeds)

C10_Witness ==
    /\ bt.pc = "done"
    /\ Len(bt.embeds) = 23
    /\ Len(bt.calls) = 3
    /\ Len(bt.calls[1].embeds) = 10
    /\ Len(bt.calls[2].embeds) = 10
    /\ Len(bt.calls[3].embeds) = 3
    /\ ~bt.calls[1].delivered
    /\ bt.calls[3].delivered

\* ------------------------------------------------------------ properties of the embed text

\* what the texts of an embed add up to
EmbedTotal(e) == Len(e.title) + Len(e.description) + FieldsLength(e.fields)

\* the same with the description as first cut to DESCRIPTION_LIMIT
FirstTotal(e) == Len(e.title) + Len(e.first_cut) + FieldsLength(e.fields)

\* C11: the texts of a built embed add up to at most EMBED_LIMIT; when they
\* add up to more after the per-field cuts, the description is cut again to
\* exactly the remaining budget, keeps its beginning and is not emptied;
\* otherwise it is left as first cut.
C11_SizeCeiling ==
    fm.pc = "built" =>
        LET e == fm.embed
            budget == EMBED_LIMIT - (Len(e.title) + FieldsLength(e.fields))
        IN /\ EmbedTotal(e) <= EMBED_LIMIT
           /\ FirstTotal(e) > EMBED_LIMIT
                 => /\ Len(e.description) = budget
                    /\ EmbedTotal(e) = EMBED_LIMIT
                    /\ budget > 3
                    /\ e.description = SubSeq(e.first_cut, 1, budget - 3) \o Ellipsis
           /\ FirstTotal(e) <= EMBED_LIMIT => e.description = e.first_cut

C11_Witness ==
    /\ fm.pc = "built"
    /\ FirstTotal(fm.embed) > EMBED_LIMIT
    /\ Len(fm.embed.first_cut) = DESCRIPTION_LIMIT
    /\ Len(fm.embed.description) < Len(fm.embed.first_cut)
    /\ EmbedTotal(fm.embed) = EMBED_LIMIT

\* C12: trim_text returns a text of at most max_length characters: the text
\* itself when it is that short, and otherwise its first max_length - 3
\* characters followed by the ellipsis, max_length characters in all.
C12_TrimText ==
    (tr.pc = "done" /\ tr.text # NoneText) =>
        /\ Len(tr.out) <= tr.max_length
        /\ Len(tr.text) <= tr.max_length => tr.out = tr.text
        /\ Len(tr.text) > tr.max_length
              => /\ tr.out = SubSeq(tr.text, 1, tr.max_length - 3) \o Ellipsis
                 /\ Len(tr.out) = tr.max_length

\* ------------------------------------------------------------ properties of one run

\* the items of a response that have a link
Usable(data) == {i \in 1..Len(data) : Truthy(data[i].link)}

\* C18: an item whose link is absent or empty is in no claim, no delivery call
\* and no line of the ledger; when the run commits, the items with a link
\* listed next to it in a response are new, delivered and written.
C18_UnusableSkipped ==
    /\ EmptyLink \notin Claimed(new_videos_to_post)
    /\ EmptyLink \notin PostedLinks
    /\ EmptyLink \notin SeqRange(written)
    /\ EmptyLink \notin SeqRange(Identifiers(ledger))
    /\ outcome = "committed" =>
          \A e \in polled \ failed :
             LET data == Answer(e).data IN
             \A i \in Usable(data) :
                data[i].link \notin known_links
                   => /\ data[i].link \in Claimed(new_videos_to_post)
                      /\ data[i].link \in PostedLinks
                      /\ data[i].link \in SeqRange(written)
                      /\ data[i].link \in SeqRange(Identifiers(ledger))

C18_Witness ==
    /\ outcome = "committed"
    /\ \E e \in polled \ failed :
          LET data == Answer(e).data IN
          /\ \E i \in 1..Len(data) : data[i].link = EmptyLink
          /\ \E i \in Usable(data) :
                /\ data[i].link \in PostedLinks
                /\ data[i].link \in SeqRange(Identifiers(ledger))
    /\ EmptyLink \notin PostedLinks

\* the executor calls of the run: one per poll made, one per delivery call
AttemptsBounded ==
    /\ Len(http) = Cardinality(polled) + Len(posted)
    /\ polled \subseteq PollEntries
    /\ \A i \in 1..Len(http) : http[i] >= 1 /\ http[i] <= RETRY_LIMIT

\* C20: the run, once started, returns to Idle, having made at most
\* RETRY_LIMIT HTTP attempts for each entry polled and each delivery call,
\* whatever the calls answer.
C20_Terminates ==
    /\ []AttemptsBounded
    /\ (outcome = "running") ~> RunEnded

C20_Witness ==
    /\ RunEnded
    /\ outcome = "committed"
    /\ failed # {}
    /\ \E c \in 1..Len(posted) : ~posted[c].delivered
    /\ \E i \in 1..Len(http) : http[i] = RETRY_LIMIT

====
